---- MODULE Spec2Model ----
(***************************************************************************)
(* The five POST route handlers of BibleRAGApp (search, search-rerank,    *)
(* analyze-verse, analyze-verse-stream, parse-intent) together with the   *)
(* library functions they call (libs/verseAnalysis.ts with its           *)
(* createEmbedding, libs/pinecone.ts), as a state machine.                *)
(*                                                                         *)
(* Every `await` of an upstream call is two steps: the call is issued     *)
(* (it becomes the outstanding call of a thread of the request) and later *)
(* it returns, with a value or by throwing.  The code that runs between   *)
(* two awaits is one atomic step, as in the JavaScript event loop.        *)
(*                                                                         *)
(* A string is a sequence of atoms (words, verse references, blanks); the *)
(* string operations of the code (trim, toUpperCase, toLowerCase, the     *)
(* verse-reference regular expression) are defined on these atoms.        *)
(***************************************************************************)
EXTENDS Integers, Sequences, FiniteSets, TLC

VARIABLES req, pair, ingest

vars == <<req, pair, ingest>>

----------------------------------------------------------------------------
(* Bounds of the model *)

MaxChunks == 2

MaxHits == 2

----------------------------------------------------------------------------
(* Strings *)

Undefined == <<"<undefined>">>

EmptyString == <<>>

Blank == " "

RECURSIVE TrimStart(_)
TrimStart(s) ==
  IF s # <<>> /\ Head(s) = Blank THEN TrimStart(Tail(s)) ELSE s

RECURSIVE TrimEnd(_)
TrimEnd(s) ==
  IF s # <<>> /\ s[Len(s)] = Blank THEN TrimEnd(SubSeq(s, 1, Len(s) - 1)) ELSE s

\* String.prototype.trim
Trim(s) == TrimEnd(TrimStart(s))

UpperAtom(a) ==
  CASE a = "yes" -> "YES"
    [] a = "Yes" -> "YES"
    [] a = "no" -> "NO"
    [] a = "john" -> "JOHN"
    [] a = "John" -> "JOHN"
    [] a = "genesis" -> "GENESIS"
    [] a = "Genesis" -> "GENESIS"
    [] OTHER -> a

\* String.prototype.toUpperCase
ToUpperCase(s) == [i \in 1..Len(s) |-> UpperAtom(s[i])]

LowerAtom(a) ==
  CASE a = "John" -> "john"
    [] a = "JOHN" -> "john"
    [] a = "Genesis" -> "genesis"
    [] a = "GENESIS" -> "genesis"
    [] a = "Song" -> "song"
    [] a = "Solomon" -> "solomon"
    [] a = "YES" -> "yes"
    [] OTHER -> a

\* String.prototype.toLowerCase
ToLowerCase(s) == [i \in 1..Len(s) |-> LowerAtom(s[i])]

RECURSIVE Hyphenate(_)
\* replace(/\s+/g, "-"): every run of blanks becomes one hyphen
Hyphenate(s) ==
  IF s = <<>> THEN <<>>
  ELSE IF Head(s) # Blank THEN <<Head(s)>> \o Hyphenate(Tail(s))
  ELSE IF Len(s) > 1 /\ s[2] = Blank THEN Hyphenate(Tail(s))
  ELSE <<"-">> \o Hyphenate(Tail(s))

\* JavaScript truthiness of an optional string
Truthy(s) == s # Undefined /\ s # EmptyString

\* a string built by a template from a list of verses and a text
Ai(form, verses, text) == [form |-> form, verses |-> verses, text |-> text]

\* content?.trim() of an optional string
OptTrim(s) == IF s = Undefined THEN Undefined ELSE Trim(s)

----------------------------------------------------------------------------
(* The verse-reference regular expression of the search route, on atoms *)

Words == {"love", "give", "me", "John", "john", "Jon", "Genesis", "and"}

BookDigits == {"1", "2", "3"}

\* the atoms of the form chapter:verse or chapter:verse-endVerse
RefAtoms == {"3:16", "3:17-18", "1:1"}

RefChapter(a) == CASE a = "3:16" -> 3 [] a = "3:17-18" -> 3 [] a = "1:1" -> 1

RefStart(a) == CASE a = "3:16" -> 16 [] a = "3:17-18" -> 17 [] a = "1:1" -> 1

\* 0 stands for the unmatched optional group (endVerse undefined)
RefEnd(a) == CASE a = "3:17-18" -> 18 [] OTHER -> 0

\* group 1 needs [a-zA-Z]+ : a lone leading digit is no book name
HasWord(run) == run # <<>> /\ run[Len(run)] \in Words

RECURSIVE ScanReferences(_, _, _, _)
ScanReferences(s, i, run, acc) ==
  IF i > Len(s) THEN acc
  ELSE LET a == s[i] IN
    CASE a = Blank -> ScanReferences(s, i + 1, run, acc)
      [] a \in RefAtoms ->
           IF HasWord(run)
           THEN ScanReferences(s, i + 1, <<>>,
                  Append(acc, [book |-> run, chapter |-> RefChapter(a),
                               startVerse |-> RefStart(a), endVerse |-> RefEnd(a)]))
           ELSE ScanReferences(s, i + 1, <<>>, acc)
      [] a \in Words -> ScanReferences(s, i + 1, Append(run, a), acc)
      [] a \in BookDigits -> ScanReferences(s, i + 1, <<a>>, acc)
      [] OTHER -> ScanReferences(s, i + 1, <<>>, acc)

\* extractVerseReferences: the matches of simplePattern, left to right
extractVerseReferences(text) == ScanReferences(text, 1, <<>>, <<>>)

----------------------------------------------------------------------------
(* Records of the vector indexes *)

\* a record of the KJV index: id `${book}-${chapter}-${verse}` with its metadata
KjvRecord(book, chapter, verse) ==
  [id |-> [prefix |-> "", book |-> book, chapter |-> chapter, verse |-> verse],
   score |-> 1, book |-> book, chapter |-> chapter, verse |-> verse,
   text |-> [src |-> "kjv", book |-> book, chapter |-> chapter, verse |-> verse]]

John316 == KjvRecord(<<"John">>, 3, 16)

Gen11 == KjvRecord(<<"Genesis">>, 1, 1)

KjvPool == {John316, Gen11}

\* a result of the vector search longer than the reranker's topN
KjvWide ==
  <<John316, Gen11, KjvRecord(<<"John">>, 3, 17), KjvRecord(<<"John">>, 3, 18),
    KjvRecord(<<"Genesis">>, 1, 2), KjvRecord(<<"Genesis">>, 1, 3)>>

OLD_TESTAMENT_BOOKS ==
  {<<"genesis">>, <<"exodus">>, <<"psalms">>, <<"song", Blank, "of", Blank, "solomon">>,
   <<"malachi">>}

determineTestament(book) ==
  IF ToLowerCase(book) \in OLD_TESTAMENT_BOOKS THEN "OT" ELSE "NT"

\* the sequences without repetition of at most n elements of S
RECURSIVE ListsOf(_, _)
ListsOf(S, n) ==
  IF n = 0 THEN {<<>>}
  ELSE LET shorter == ListsOf(S, n - 1)
           longest == {p \in shorter \X S :
                         /\ Len(p[1]) = n - 1
                         /\ \A i \in 1..Len(p[1]) : p[1][i] # p[2]}
       IN shorter \cup {Append(p[1], p[2]) : p \in longest}

----------------------------------------------------------------------------
(* Upstream calls and their replies *)

NoId == [prefix |-> "", book |-> <<>>, chapter |-> 0, verse |-> 0]

\* what is sent upstream: the kind of call and its arguments
NoCall ==
  [kind |-> "none", purpose |-> <<>>, text |-> <<>>, index |-> "", id |-> NoId,
   topK |-> 0, docs |-> <<>>]

\* openai.chat.completions.create with the prompt `purpose` filled with `text`
\* (and with the verses `docs`)
ChatCall(purpose, text, docs) ==
  [NoCall EXCEPT !.kind = "chat", !.purpose = purpose, !.text = text, !.docs = docs]

\* openai.embeddings.create
EmbedCall(text) == [NoCall EXCEPT !.kind = "embed", !.text = text]

\* index.query with the embedding of `text`
QueryCall(index, text, topK) ==
  [NoCall EXCEPT !.kind = "query", !.index = index, !.text = text, !.topK = topK]

\* index.fetch([id])
FetchCall(index, id) == [NoCall EXCEPT !.kind = "fetch", !.index = index, !.id = id]

\* pc.inference.rerank
RerankCall(query, documents, topN) ==
  [NoCall EXCEPT !.kind = "rerank", !.text = query, !.docs = documents, !.topK = topN]

\* the messages of the errors an upstream call throws
ErrTexts(few) == IF few THEN {"ETIMEDOUT"} ELSE {"ETIMEDOUT", "401 Incorrect API key"}

Throws(few) ==
  {[ok |-> FALSE, err |-> e, content |-> Undefined, items |-> <<>>, now |-> 0] :
     e \in ErrTexts(few)}

Returns(content, items) ==
  [ok |-> TRUE, err |-> "", content |-> content, items |-> items, now |-> 0]

\* no reply yet
NoReply == [ok |-> FALSE, err |-> "", content |-> Undefined, items |-> <<>>, now |-> 0]

\* the await points of the handler whose last reply is kept for reference
Heard == {"cleanup", "preference", "intent", "query", "rerank"}

----------------------------------------------------------------------------
(* Requests *)

Routes == {"search", "search-rerank", "analyze-verse", "analyze-verse-stream",
           "parse-intent"}

Reqs == {1, 2}

\* process.env.PINECONE_INDEX_NAME and the two original-language indexes
KJV_INDEX == "kjv"

HEBREW_INDEX == "hebrew"

GREEK_INDEX == "greek"

REJECTION == <<"I only answer questions related to the Bible, Christianity, and faith.">>

NoResp == [status |-> 0, kind |-> "none", body |-> [error |-> ""]]

\* one thread of control of a request: 1 is the handler itself, the others are
\* the analyzeSpecificVerse invocations of the Promise.all fan-out
IdleThread ==
  [pc |-> "idle", call |-> NoCall, site |-> <<"", 0, 0>>, fn |-> "none",
   q |-> Undefined, topK |-> 0, target |-> NoId, index |-> "", kjv |-> <<>>,
   idx |-> 0, exact |-> <<>>, acc |-> <<>>, settled |-> "idle",
   verses |-> <<>>, explanation |-> Ai("none", <<>>, EmptyString), err |-> ""]

\* the locals of one invocation of a POST handler
NewRequest(route, body) ==
  [route |-> route, body |-> body, query |-> Undefined, topK |-> 0,
   specificVerses |-> Undefined, cleanedQuery |-> Undefined,
   wantsSummary |-> TRUE, responseStyle |-> "summary",
   verseMatches |-> <<>>, mi |-> 0, verseNum |-> 0, normalizedBookName |-> Undefined,
   requestedVerses |-> <<>>, documents |-> <<>>, verses |-> <<>>,
   verseResults |-> <<>>, th |-> <<IdleThread>>, fanouts |-> 0,
   chunks |-> 0, resp |-> NoResp, events |-> <<>>, closed |-> FALSE,
   failed |-> {}, failedAt |-> {}, sites |-> {}, reissued |-> FALSE,
   resited |-> FALSE, heard |-> [p \in Heard |-> NoReply], finished |-> <<>>]

Absent == NewRequest("none", [kind |-> "none"])

\* the thread of the handler itself
Handler == 1

\* thread t issues `call` at the await point `pc` (loop indices i, j) and waits
Issue(s, t, pc, i, j, call) ==
  LET key == <<t, pc, i, j>> IN
  [s EXCEPT !.th[t].pc = pc, !.th[t].call = call, !.th[t].site = <<pc, i, j>>,
            !.sites = @ \cup {key},
            !.resited = @ \/ key \in s.sites,
            !.reissued = @ \/ call \in s.failed]

\* the outstanding call of thread t has returned or thrown
Settle(s, t, reply) ==
  [s EXCEPT !.failed = IF reply.ok THEN @ ELSE @ \cup {s.th[t].call},
            !.failedAt = IF reply.ok THEN @ ELSE @ \cup {s.th[t].pc},
            !.heard = IF t = Handler /\ s.th[t].pc \in Heard
                      THEN [@ EXCEPT ![s.th[t].pc] = [reply EXCEPT !.now = 0]]
                      ELSE @]

\* the handler returns `resp`: NextResponse.json(...) or new Response(...)
Respond(s, resp) ==
  [s EXCEPT !.resp = resp, !.th[Handler].pc = "done", !.th[Handler].call = NoCall]

Json(status, kind, body) == [status |-> status, kind |-> kind, body |-> body]

\* one `data: {...}` line of the stream: {type, message} or {type, verses}
Event(type, message, verses) == [type |-> type, message |-> message, verses |-> verses]

----------------------------------------------------------------------------
(* Responses *)

\* the top-level catch of each route
ServerError(route, err) ==
  CASE route = "analyze-verse" ->
         Json(500, "error", [error |-> "Internal server error", message |-> <<err>>])
    [] route = "analyze-verse-stream" ->
         Json(500, "text", [error |-> "Internal server error", message |-> <<>>])
    [] OTHER ->
         Json(500, "error", [error |-> "Internal server error", message |-> <<>>])

\* if (!query) return ... { status: 400 }
BadRequest(route) ==
  IF route = "analyze-verse-stream"
  THEN Json(400, "text", [error |-> "Query is required", message |-> <<>>])
  ELSE Json(400, "error", [error |-> "Query is required", message |-> <<>>])

\* a test for an absent field only: `query === undefined`
MissingUndefinedOnly(query) == query = Undefined

\* the `!query` test
Missing(query) == ~Truthy(query)

\* a throw that reaches the top-level catch of the handler
Fail(s, err) == Respond(s, ServerError(s.route, err))

\* `${bookName} ${doc.chapter}:${doc.verse} - ${cleanText}` for each document
FormatVerses(documents) ==
  [i \in 1..Len(documents) |->
     <<documents[i].book, documents[i].chapter, documents[i].verse, documents[i].text>>]

\* results.map(match => ({id, score, text, abbrev, book, chapter, verse}))
ToDocuments(matches) == matches

SearchBody(s, documents, aiResponse, verses) ==
  [query |-> s.query, documents |-> documents, total |-> Len(documents),
   aiResponse |-> aiResponse, verses |-> verses, reranked |-> s.route = "search-rerank"]

\* a laxer test: relevanceResponse.startsWith("YES")
StartsWithYes(content) ==
  /\ content # Undefined
  /\ Trim(content) # <<>>
  /\ ToUpperCase(Trim(content))[1] \in {"YES", "YES."}

\* relevanceResponse === "YES"
IsRelevant(content) ==
  content # Undefined /\ ToUpperCase(Trim(content)) = <<"YES">>

\* the reply to a question that is not about the Bible
Rejected(s) ==
  CASE s.route \in {"search", "search-rerank"} ->
         Respond(s, Json(200, "rejected",
           [query |-> s.query, documents |-> <<>>, total |-> 0,
            aiResponse |-> Ai("text", <<>>, REJECTION), verses |-> <<>>]))
    [] s.route = "analyze-verse" ->
         Respond(s, Json(200, "rejected",
           [query |-> s.query, verses |-> <<>>, explanation |-> REJECTION,
            analysisType |-> "not_biblical"]))
    [] s.route = "analyze-verse-stream" ->
         [Respond(s, Json(200, "stream", [error |-> "", message |-> <<>>]))
            EXCEPT !.events = <<Event("error", REJECTION, <<>>)>>,
                   !.closed = TRUE]

----------------------------------------------------------------------------
(* search and search-rerank *)

\* STEP 3B of search, and search-rerank after the cleanup
VectorSearch(s) == Issue(s, Handler, "embedding", 0, 0, EmbedCall(s.cleanedQuery))

\* the JSON response of the search route
SearchDone(s, documents, aiResponse) ==
  Respond(s, Json(200, "ok",
    SearchBody(s, documents, aiResponse, FormatVerses(documents))))

SummaryCall(s, verses) ==
  ChatCall(<<"summary", s.route, s.responseStyle>>, s.query, verses)

\* the end of the loop over verseMatches
EndOfMatches(s) ==
  IF s.requestedVerses # <<>>
  THEN LET documents == ToDocuments(s.requestedVerses)
           verses == FormatVerses(documents)
           t == [s EXCEPT !.documents = documents, !.verses = verses]
       IN IF s.wantsSummary
          THEN Issue(t, Handler, "summarySpecific", 0, 0, SummaryCall(t, verses))
          ELSE SearchDone(t, documents, Ai("verses", verses, EmptyString))
  ELSE VectorSearch(s)

\* parseInt(endVerse) when the range group matched, else startVerseNum
EndVerseNum(match) == IF match.endVerse # 0 THEN match.endVerse ELSE match.startVerse

\* the next iteration of `for (const match of verseMatches)`
NextMatch(s, mi) ==
  IF mi > Len(s.verseMatches) THEN EndOfMatches(s)
  ELSE Issue([s EXCEPT !.mi = mi], Handler, "normalize", mi, 0,
             ChatCall(<<"normalize">>, Trim(s.verseMatches[mi].book), <<>>))

\* the next iteration of the loop over verseNum
NextFetch(s, verseNum) ==
  LET match == s.verseMatches[s.mi] IN
  IF verseNum > EndVerseNum(match) THEN NextMatch(s, s.mi + 1)
  ELSE Issue([s EXCEPT !.verseNum = verseNum], Handler, "fetch", s.mi, verseNum,
             FetchCall(KJV_INDEX, [prefix |-> "", book |-> s.normalizedBookName,
                                     chapter |-> match.chapter, verse |-> verseNum]))

\* normalizeBookName: what it returns for a reply (Undefined stands for null)
NormalizedName(bookName, reply) ==
  IF ~reply.ok THEN bookName
  ELSE LET normalized == OptTrim(reply.content) IN
       IF Truthy(normalized) /\ normalized # <<"INVALID">> THEN normalized ELSE Undefined

\* a comparison of the reply as it came, without trim()
PreferenceUntrimmed(reply) ==
  IF ~reply.ok THEN <<TRUE, "summary">>
  ELSE CASE reply.content = <<"VERSE_ONLY">> -> <<FALSE, "verse_only">>
         [] reply.content = <<"DETAILED">> -> <<TRUE, "detailed">>
         [] OTHER -> <<TRUE, "summary">>

\* analyzeResponsePreference: <<wantsSummary, responseStyle>>
ResponsePreference(reply) ==
  IF ~reply.ok THEN <<TRUE, "summary">>
  ELSE LET preference == OptTrim(reply.content) IN
       CASE preference = <<"VERSE_ONLY">> -> <<FALSE, "verse_only">>
         [] preference = <<"DETAILED">> -> <<TRUE, "detailed">>
         [] OTHER -> <<TRUE, "summary">>

\* cleanupResponse.choices[0]?.message?.content || query
CleanedUntrimmed(query, reply) ==
  IF reply.ok /\ Truthy(reply.content) THEN reply.content ELSE query

\* cleanupResponse.choices[0]?.message?.content?.trim() || query
CleanedQuery(query, reply) ==
  IF reply.ok /\ Truthy(OptTrim(reply.content)) THEN OptTrim(reply.content) ELSE query

AfterCleanup(s, reply) ==
  LET t == [s EXCEPT !.cleanedQuery = CleanedQuery(s.query, reply)] IN
  IF s.route = "search"
  THEN Issue(t, Handler, "preference", 0, 0, ChatCall(<<"preference">>, t.cleanedQuery, <<>>))
  ELSE VectorSearch(t)

AfterPreference(s, reply) ==
  LET pref == ResponsePreference(reply)
      t == [s EXCEPT !.wantsSummary = pref[1], !.responseStyle = pref[2],
                     !.verseMatches = extractVerseReferences(s.cleanedQuery)]
  IN IF Len(t.verseMatches) > 0 THEN NextMatch(t, 1) ELSE VectorSearch(t)

AfterNormalize(s, reply) ==
  LET name == NormalizedName(Trim(s.verseMatches[s.mi].book), reply)
      t == [s EXCEPT !.normalizedBookName = name]
  IN IF name = Undefined THEN NextMatch(t, s.mi + 1)
     ELSE NextFetch(t, s.verseMatches[s.mi].startVerse)

\* a loop that puts each fetched record in front of the earlier ones
AfterFetchUnshift(s, reply) ==
  IF ~reply.ok THEN Fail(s, reply.err)
  ELSE NextFetch([s EXCEPT !.requestedVerses = reply.items \o @], s.verseNum + 1)

\* fetchVectorById rethrows; its caller in the search route has no local catch
AfterFetch(s, reply) ==
  IF ~reply.ok THEN Fail(s, reply.err)
  ELSE NextFetch([s EXCEPT !.requestedVerses = @ \o reply.items], s.verseNum + 1)

\* createEmbedding rethrows; neither route catches it locally
AfterEmbedding(s, reply) ==
  IF ~reply.ok THEN Fail(s, reply.err)
  ELSE Issue(s, Handler, "query", 0, 0, QueryCall(KJV_INDEX, s.cleanedQuery, s.topK))

\* summary ? `${verses}\n\n Summary:\n${summary}` : verses
WithSummary(verses, content) ==
  IF Truthy(content) THEN Ai("verses+summary", verses, content) ELSE Ai("verses", verses, EmptyString)

AfterSummarySpecific(s, reply) ==
  SearchDone(s, s.documents,
    IF reply.ok THEN WithSummary(s.verses, reply.content) ELSE Ai("verses", s.verses, EmptyString))

\* a rerank step that asks the reranker for topK documents
AfterQueryRerankTopK(s, reply) ==
  IF ~reply.ok THEN Fail(s, reply.err)
  ELSE LET documents == ToDocuments(reply.items)
           verses == FormatVerses(documents)
           t == [s EXCEPT !.documents = documents, !.verses = verses]
       IN IF s.route = "search-rerank"
          THEN Issue(t, Handler, "rerank", 0, 0, RerankCall(s.query, documents, s.topK))
          ELSE IF Len(documents) > 0
               THEN IF s.wantsSummary
                    THEN Issue(t, Handler, "summary", 0, 0, SummaryCall(t, verses))
                    ELSE SearchDone(t, documents, Ai("verses", verses, EmptyString))
               ELSE SearchDone(t, documents, Ai("text", <<>>, EmptyString))

\* queryVectors rethrows; neither route catches it locally
AfterQuery(s, reply) ==
  IF ~reply.ok THEN Fail(s, reply.err)
  ELSE LET documents == ToDocuments(reply.items)
           verses == FormatVerses(documents)
           t == [s EXCEPT !.documents = documents, !.verses = verses]
       IN IF s.route = "search-rerank"
          THEN Issue(t, Handler, "rerank", 0, 0, RerankCall(s.query, documents, 5))
          ELSE IF Len(documents) > 0
               THEN IF s.wantsSummary
                    THEN Issue(t, Handler, "summary", 0, 0, SummaryCall(t, verses))
                    ELSE SearchDone(t, documents, Ai("verses", verses, EmptyString))
               ELSE SearchDone(t, documents, Ai("text", <<>>, EmptyString))

\* rerankedResults.data.map(result => ({...documents[result.index], rerankScore}))
Reranked(documents, data) ==
  [i \in 1..Len(data) |->
     [id |-> documents[data[i].index].id, score |-> documents[data[i].index].score,
      book |-> documents[data[i].index].book,
      chapter |-> documents[data[i].index].chapter,
      verse |-> documents[data[i].index].verse,
      text |-> documents[data[i].index].text,
      rerankScore |-> data[i].score]]

\* rerank rethrows; search-rerank does not catch it locally
AfterRerank(s, reply) ==
  IF ~reply.ok THEN Fail(s, reply.err)
  ELSE LET rerankedDocuments == Reranked(s.documents, reply.items)
           verses == FormatVerses(rerankedDocuments)
           t == [s EXCEPT !.documents = rerankedDocuments, !.verses = verses]
       IN IF Len(rerankedDocuments) > 0
          THEN Issue(t, Handler, "summary", 0, 0, SummaryCall(t, verses))
          ELSE SearchDone(t, rerankedDocuments, Ai("text", <<>>, EmptyString))

\* the summary call without its try/catch
SummaryRethrown(s, reply) ==
  IF ~reply.ok THEN Fail(s, reply.err)
  ELSE SearchDone(s, s.documents,
         IF s.route = "search" THEN WithSummary(s.verses, reply.content)
         ELSE IF Truthy(reply.content) THEN Ai("text", <<>>, reply.content)
         ELSE Ai("text", <<>>, EmptyString))

AfterSummary(s, reply) ==
  SearchDone(s, s.documents,
    IF ~reply.ok THEN Ai("fallback", s.verses, s.query)
    ELSE IF s.route = "search" THEN WithSummary(s.verses, reply.content)
    ELSE IF Truthy(reply.content) THEN Ai("text", <<>>, reply.content) ELSE Ai("text", <<>>, EmptyString))

----------------------------------------------------------------------------
(* parse-intent *)

\* a JSON value of the topK field: an integer n, a number of n tenths, a string
\* of characters s, or no field at all
JsonInt(n) == [t |-> "int", n |-> n, s |-> <<>>]

JsonTenths(n) == [t |-> "tenths", n |-> n, s |-> <<>>]

JsonString(s) == [t |-> "string", n |-> 0, s |-> s]

JsonMissing == [t |-> "missing", n |-> 0, s |-> <<>>]

DigitOf(c) ==
  CASE c = "0" -> 0 [] c = "1" -> 1 [] c = "2" -> 2 [] c = "3" -> 3 [] c = "4" -> 4
    [] c = "5" -> 5 [] c = "6" -> 6 [] c = "7" -> 7 [] c = "8" -> 8 [] c = "9" -> 9
    [] OTHER -> -1

RECURSIVE LeadingDigits(_, _)
\* the value of the digits s starts with, after the value acc read so far
LeadingDigits(s, acc) ==
  IF s = <<>> \/ DigitOf(Head(s)) < 0 THEN acc
  ELSE LeadingDigits(Tail(s), 10 * acc + DigitOf(Head(s)))

\* parseInt(v): [nan |-> TRUE] stands for NaN
ParseInt(v) ==
  CASE v.t = "int" -> [nan |-> FALSE, n |-> v.n]
    [] v.t = "tenths" ->
         [nan |-> FALSE, n |-> IF v.n >= 0 THEN v.n \div 10 ELSE 0 - ((0 - v.n) \div 10)]
    [] v.t = "string" ->
         LET t == TrimStart(v.s)
             signed == t # <<>> /\ Head(t) \in {"-", "+"}
             digits == IF signed THEN Tail(t) ELSE t
         IN IF digits = <<>> \/ DigitOf(Head(digits)) < 0 THEN [nan |-> TRUE, n |-> 0]
            ELSE [nan |-> FALSE,
                  n |-> IF signed /\ Head(t) = "-" THEN 0 - LeadingDigits(digits, 0)
                        ELSE LeadingDigits(digits, 0)]
    [] OTHER -> [nan |-> TRUE, n |-> 0]

\* parseInt(parsedResult.topK) without the `|| 5`
ParseIntOnly(v) == ParseInt(v).n

\* parseInt(parsedResult.topK) || 5 on the JSON value of the topK field
ParseIntOr5(v) == IF ParseInt(v).nan \/ ParseInt(v).n = 0 THEN 5 ELSE ParseInt(v).n

Min(a, b) == IF a < b THEN a ELSE b

Max(a, b) == IF a > b THEN a ELSE b

IntentDefaults(query) ==
  [cleanedQuery |-> query, topK |-> 5, hasSpecificVerse |-> FALSE, specificVerses |-> <<>>]

\* the inner try of parse-intent: JSON.parse(result || "{}") and the defaults
ParsedIntent(query, reply) ==
  LET result == OptTrim(reply.content) IN
  IF ~Truthy(result) THEN IntentDefaults(query)
  ELSE IF reply.items = <<>> THEN IntentDefaults(query)
  ELSE LET parsedResult == reply.items[1] IN
       [cleanedQuery |-> IF Truthy(parsedResult.cleanedQuery)
                         THEN parsedResult.cleanedQuery ELSE query,
        topK |-> Min(Max(ParseIntOr5(parsedResult.topK), 1), 50),
        hasSpecificVerse |-> parsedResult.hasSpecificVerse,
        specificVerses |-> parsedResult.specificVerses]

\* the completion call of parse-intent is outside the inner try
AfterIntent(s, reply) ==
  IF ~reply.ok THEN Fail(s, reply.err)
  ELSE Respond(s, Json(200, "ok", ParsedIntent(s.query, reply)))

----------------------------------------------------------------------------
(* analyze-verse and analyze-verse-stream: the ends of the handlers *)

RefAtomOf(chapter, verse) ==
  CASE chapter = 3 /\ verse = 16 -> "3:16"
    [] chapter = 3 /\ verse = 17 -> "3:17"
    [] chapter = 1 /\ verse = 1 -> "1:1"
    [] chapter = 1 /\ verse = 2 -> "1:2"
    [] OTHER -> "c:v"

\* `${book} ${chapter}:${verse}`
RefText(book, chapter, verse) == Append(book, RefAtomOf(chapter, verse))

\* the verse objects of the analyze-verse responses and of the verses event
FormatAnalysis(verses) ==
  [i \in 1..Len(verses) |->
     [reference |-> RefText(verses[i].book, verses[i].chapter, verses[i].verse),
      kjvText |-> verses[i].kjvText, originalText |-> verses[i].originalText,
      originalLanguage |-> verses[i].originalLanguage,
      testament |-> verses[i].testament, book |-> verses[i].book,
      chapter |-> verses[i].chapter, verse |-> verses[i].verse]]

Enqueue(s, event) == [s EXCEPT !.events = Append(@, event)]

\* a catch that falls through to the end of start(): error, then complete
StreamErrorThenComplete(s) ==
  [Enqueue(Enqueue(s, Event("error", <<"An error occurred while analyzing the verses.">>,
                            <<>>)),
           Event("complete", <<>>, <<>>))
     EXCEPT !.closed = TRUE, !.th[Handler].pc = "done", !.th[Handler].call = NoCall]

\* the catch inside start(): an error event, then controller.close()
StreamError(s) ==
  [Enqueue(s, Event("error", <<"An error occurred while analyzing the verses.">>, <<>>))
     EXCEPT !.closed = TRUE, !.th[Handler].pc = "done", !.th[Handler].call = NoCall]

\* the end of start(): a complete event, then controller.close()
StreamComplete(s) ==
  [Enqueue(s, Event("complete", <<>>, <<>>))
     EXCEPT !.closed = TRUE, !.th[Handler].pc = "done", !.th[Handler].call = NoCall]

\* STEP 4 without the verses event before it
StreamAnalysisOnly(s, verses) ==
  LET t == [s EXCEPT !.verses = verses] IN
  IF Len(verses) > 0
  THEN Issue(Enqueue(t, Event("status", <<"Generating analysis">>, <<>>)),
             Handler, "completion", 0, 0,
             ChatCall(<<"analysis-stream">>, s.query, verses))
  ELSE StreamComplete(t)

\* the verses event, then STEP 4: the streaming completion when there are verses
StreamVerses(s, verses) ==
  LET t == [Enqueue(s, Event("verses", <<>>, FormatAnalysis(verses)))
              EXCEPT !.verses = verses] IN
  IF Len(verses) > 0
  THEN Issue(Enqueue(t, Event("status", <<"Generating analysis">>, <<>>)),
             Handler, "completion", 0, 0,
             ChatCall(<<"analysis-stream">>, s.query, verses))
  ELSE StreamComplete(t)

\* the JSON response of analyze-verse; `now` is new Date() at that moment
AnalyzeDone(s, verses, explanation, analysisType, now) ==
  Respond(s, Json(200, "ok",
    [query |-> s.query, verses |-> FormatAnalysis(verses), explanation |-> explanation,
     analysisType |-> analysisType, total |-> Len(verses), timestamp |-> now]))

\* every throw reaching the catch of the handler function
ThrowToTopLevel(s, err) == Fail(s, err)

\* thread 1 leaves its try block by a throw
Throw(s, err) ==
  IF s.route = "analyze-verse-stream" /\ s.resp # NoResp THEN StreamError(s)
  ELSE Fail(s, err)

Tasks(s) == 2..Len(s.th)

\* Promise.any: resolved as soon as one promise is fulfilled
SomeFulfilled(s) == \E t \in Tasks(s) : s.th[t].settled = "fulfilled"

\* Promise.all resolves when every promise is fulfilled
AllFulfilled(s) == \A t \in Tasks(s) : s.th[t].settled = "fulfilled"

RECURSIVE FlatVerses(_, _)
\* verseResults.flatMap(result => result.verses)
FlatVerses(s, t) ==
  IF t > Len(s.th) THEN <<>> ELSE s.th[t].verses \o FlatVerses(s, t + 1)

\* verseResults.map(result => result.explanation).join
JoinedExplanations(s) ==
  Ai("joined", [i \in 1..(Len(s.th) - 1) |-> s.th[i + 1].explanation], EmptyString)

RECURSIVE VersesAsSettled(_, _)
\* the verses of the lookups in the order in which their promises settled
VersesAsSettled(s, order) ==
  IF order = <<>> THEN <<>>
  ELSE s.th[Head(order)].verses \o VersesAsSettled(s, Tail(order))

\* a join that collects the results as the lookups complete
AfterAllAsSettled(s, now) ==
  LET allVerses == VersesAsSettled(s, s.finished)
      t == [s EXCEPT !.verses = allVerses]
  IN IF s.route = "analyze-verse-stream" THEN StreamVerses(t, allVerses)
     ELSE IF Len(s.th) - 1 = 1
          THEN AnalyzeDone(t, allVerses, s.th[2].explanation, "specific_verses", now)
          ELSE Issue(t, Handler, "combined", 0, 0,
                     ChatCall(<<"combined">>, s.query, allVerses))

\* the handler resumes after `await Promise.all(versePromises)`
AfterAll(s, now) ==
  LET allVerses == FlatVerses(s, 2)
      t == [s EXCEPT !.verses = allVerses]
  IN IF s.route = "analyze-verse-stream" THEN StreamVerses(t, allVerses)
     ELSE IF Len(s.th) - 1 = 1
          THEN AnalyzeDone(t, allVerses, s.th[2].explanation, "specific_verses", now)
          ELSE Issue(t, Handler, "combined", 0, 0,
                     ChatCall(<<"combined">>, s.query, allVerses))

\* completion.choices[0]?.message?.content || 'Unable to generate explanation.'
ExplanationOf(content) ==
  IF Truthy(content) THEN Ai("text", <<>>, content)
  ELSE Ai("text", <<>>, <<"Unable to generate explanation.">>)

AfterCombined(s, reply, now) ==
  AnalyzeDone(s, s.verses,
    IF reply.ok THEN ExplanationOf(reply.content) ELSE JoinedExplanations(s),
    "specific_verses", now)

\* a library call of thread t has settled: its caller continues
Continue(s, t, now) ==
  IF t = Handler
  THEN IF s.th[t].settled = "rejected" THEN Throw(s, s.th[t].err)
       ELSE IF s.route = "analyze-verse-stream" THEN StreamVerses(s, s.th[t].verses)
       ELSE AnalyzeDone(s, s.th[t].verses, s.th[t].explanation, "topical_search", now)
  ELSE IF s.th[Handler].pc # "promiseAll" THEN s
       ELSE IF s.th[t].settled = "rejected" THEN Throw(s, s.th[t].err)
       ELSE IF AllFulfilled(s) THEN AfterAll(s, now)
       ELSE s

----------------------------------------------------------------------------
(* libs/verseAnalysis.ts *)

\* the promise of thread t is fulfilled with {verses, explanation, query}
LibFulfil(s, t, verses, explanation, now) ==
  Continue([s EXCEPT !.th[t].settled = "fulfilled", !.th[t].pc = "done",
                     !.th[t].call = NoCall, !.th[t].verses = verses,
                     !.th[t].explanation = explanation,
                     !.finished = Append(@, t)], t, now)

\* the promise of thread t is rejected: analyzeVerses and analyzeSpecificVerse rethrow
LibReject(s, t, err, now) ==
  Continue([s EXCEPT !.th[t].settled = "rejected", !.th[t].pc = "done",
                     !.th[t].call = NoCall, !.th[t].err = err,
                     !.finished = Append(@, t)], t, now)

\* searchKJVVerses(query, topK), called by analyzeVerses or analyzeSpecificVerse
StartKjv(s, t, fn, q, topK, target) ==
  Issue([s EXCEPT !.th[t].fn = fn, !.th[t].q = q, !.th[t].topK = topK,
                  !.th[t].target = target, !.th[t].settled = "pending"],
        t, "kjvEmbed", 0, 0, EmbedCall(q))

AfterKjvEmbed(s, t, reply, now) ==
  IF ~reply.ok THEN LibReject(s, t, reply.err, now)
  ELSE Issue(s, t, "kjvQuery", 0, 0, QueryCall(KJV_INDEX, s.th[t].q, s.th[t].topK))

\* `${testament}-${book.toLowerCase().replace(/\s+/g, '-')}-${chapter}-${verse}`
OriginalVerseId(book, chapter, verse) ==
  [prefix |-> determineTestament(book), book |-> Hyphenate(ToLowerCase(book)),
   chapter |-> chapter, verse |-> verse]

IndexOf(testament) == IF testament = "OT" THEN HEBREW_INDEX ELSE GREEK_INDEX

\* findOriginalLanguageVerse(book, chapter, verse) up to its first await
StartOriginal(s, t, idx, book, chapter, verse) ==
  LET testament == determineTestament(book) IN
  Issue([s EXCEPT !.th[t].idx = idx, !.th[t].index = IndexOf(testament),
                  !.th[t].target = [prefix |-> testament, book |-> book,
                                    chapter |-> chapter, verse |-> verse]],
        t, "origFetch", idx, 0,
        FetchCall(IndexOf(testament), OriginalVerseId(book, chapter, verse)))

\* the first result with the same book (case-insensitively), chapter and verse,
\* or else the first result; <<>> when there is no result
ExactOrFirst(results, book, chapter, verse) ==
  LET hits == {i \in 1..Len(results) :
                 /\ ToLowerCase(results[i].book) = ToLowerCase(book)
                 /\ results[i].chapter = chapter
                 /\ results[i].verse = verse}
  IN IF hits # {} THEN <<results[CHOOSE i \in hits : \A j \in hits : i <= j]>>
     ELSE IF results # <<>> THEN <<results[1]>>
     ELSE <<>>

\* {text, language, testament} of findOriginalLanguageVerse; <<>> stands for null
OriginalData(found, testament) ==
  IF found = <<>> THEN <<>>
  ELSE <<[text |-> found[1].text,
          language |-> IF testament = "OT" THEN "hebrew" ELSE "greek",
          testament |-> testament]>>

\* the VerseResult built from a KJV result and the original-language data
VerseResult(kjv, data, book) ==
  [id |-> kjv.id, kjvText |-> kjv.text,
   originalText |-> IF data = <<>> THEN <<>> ELSE <<data[1].text>>,
   originalLanguage |-> IF data = <<>> THEN "" ELSE data[1].language,
   book |-> kjv.book, chapter |-> kjv.chapter, verse |-> kjv.verse,
   testament |-> IF data = <<>> THEN determineTestament(book) ELSE data[1].testament]

ExplainCall(query, verses) == ChatCall(<<"explanation">>, query, verses)

\* findOriginalLanguageVerse has returned `data` to its caller
OriginalDone(s, t, data) ==
  LET th == s.th[t] IN
  IF th.fn = "analyzeVerses"
  THEN LET kjvVerse == th.kjv[th.idx]
           acc == Append(th.acc, VerseResult(kjvVerse, data, kjvVerse.book))
           u == [s EXCEPT !.th[t].acc = acc, !.th[t].call = NoCall]
       IN IF th.idx < Len(th.kjv)
          THEN StartOriginal(u, t, th.idx + 1, th.kjv[th.idx + 1].book,
                             th.kjv[th.idx + 1].chapter, th.kjv[th.idx + 1].verse)
          ELSE Issue(u, t, "explain", 0, 0, ExplainCall(th.q, acc))
  ELSE LET acc == <<VerseResult(th.exact[1], data, th.target.book)>>
           u == [s EXCEPT !.th[t].acc = acc, !.th[t].call = NoCall]
       IN Issue(u, t, "explain", 0, 0, ExplainCall(th.q, acc))

AfterKjvQuery(s, t, reply, now) ==
  IF ~reply.ok THEN LibReject(s, t, reply.err, now)
  ELSE LET th == s.th[t]
           kjvResults == ToDocuments(reply.items)
           u == [s EXCEPT !.th[t].kjv = kjvResults]
       IN IF th.fn = "analyzeVerses"
          THEN IF Len(kjvResults) = 0
               THEN LibFulfil(u, t, <<>>,
                      Ai("text", <<>>, <<"No verses found matching your query.">>), now)
               ELSE StartOriginal(u, t, 1, kjvResults[1].book, kjvResults[1].chapter,
                                  kjvResults[1].verse)
          ELSE LET exactMatch == ExactOrFirst(kjvResults, th.target.book,
                                              th.target.chapter, th.target.verse)
               IN IF exactMatch = <<>>
                  THEN LibFulfil(u, t, <<>>, Ai("not found", <<>>, th.q), now)
                  ELSE StartOriginal([u EXCEPT !.th[t].exact = exactMatch], t, 0,
                         th.target.book, th.target.chapter, th.target.verse)

\* the catch of findOriginalLanguageVerse returns null
AfterOrigFetch(s, t, reply) ==
  LET th == s.th[t] IN
  IF ~reply.ok THEN OriginalDone(s, t, <<>>)
  ELSE IF reply.items # <<>> THEN OriginalDone(s, t, OriginalData(reply.items, th.target.prefix))
  ELSE Issue(s, t, "origEmbed", th.idx, 0,
             EmbedCall(RefText(th.target.book, th.target.chapter, th.target.verse)))

AfterOrigEmbed(s, t, reply) ==
  LET th == s.th[t] IN
  IF ~reply.ok THEN OriginalDone(s, t, <<>>)
  ELSE Issue(s, t, "origQuery", th.idx, 0,
             QueryCall(th.index,
                       RefText(th.target.book, th.target.chapter, th.target.verse), 3))

AfterOrigQuery(s, t, reply) ==
  LET th == s.th[t] IN
  IF ~reply.ok THEN OriginalDone(s, t, <<>>)
  ELSE OriginalDone(s, t,
         OriginalData(ExactOrFirst(reply.items, th.target.book, th.target.chapter,
                                   th.target.verse), th.target.prefix))

\* a catch that calls the completion again
ExplainRetried(s, t, reply, now) ==
  LET th == s.th[t] IN
  IF ~reply.ok THEN Issue(s, t, "explain", 0, 0, th.call)
  ELSE LibFulfil(s, t, th.acc, ExplanationOf(reply.content), now)

\* generateExplanation: the completion, or the listing of its catch
AfterExplain(s, t, reply, now) ==
  LET th == s.th[t] IN
  LibFulfil(s, t, th.acc,
    IF reply.ok THEN ExplanationOf(reply.content) ELSE Ai("fallback", th.acc, th.q), now)

----------------------------------------------------------------------------
(* The beginning of the handlers *)

\* const { query, topK = 5 } : the default of each route
DefaultTopK(route) == IF route = "search-rerank" THEN 10 ELSE 5

\* specificVerses && Array.isArray(specificVerses) && specificVerses.length > 0
HasSpecificVerses(specificVerses) == Len(specificVerses) > 0

\* specificVerses.map(verseInfo => analyzeSpecificVerse(book, chapter, verse)):
\* every invocation runs up to its first await, in order
RECURSIVE Spawn(_, _)
Spawn(s, i) ==
  IF i > Len(s.specificVerses) THEN s
  ELSE LET verseInfo == s.specificVerses[i] IN
       Spawn(StartKjv([s EXCEPT !.th = Append(@, IdleThread)], i + 1,
                      "analyzeSpecificVerse",
                      RefText(verseInfo.book, verseInfo.chapter, verseInfo.verse), 3,
                      [prefix |-> "", book |-> verseInfo.book,
                       chapter |-> verseInfo.chapter, verse |-> verseInfo.verse]),
             i + 1)

\* the promises are started and the handler goes on without awaiting them
FanOutUnawaited(s) ==
  Issue([Spawn(s, 1) EXCEPT !.fanouts = @ + 1], Handler, "combined", 0, 0,
        ChatCall(<<"combined">>, s.query, <<>>))

\* the handler waits at `await Promise.all(versePromises)`
FanOut(s) ==
  [Spawn(s, 1) EXCEPT !.th[Handler].pc = "promiseAll", !.th[Handler].call = NoCall,
                      !.fanouts = @ + 1]

\* analyzeVerses(query, Math.min(topK, 10)) in the handler's own thread
Topical(s) == StartKjv(s, Handler, "analyzeVerses", s.query, Min(s.topK, 10), NoId)

\* what follows the relevance check when the query passes it
Proceed(s) ==
  CASE s.route = "search" ->
         Issue(s, Handler, "cleanup", 0, 0, ChatCall(<<"cleanup", "search">>, s.query, <<>>))
    [] s.route = "search-rerank" ->
         Issue(s, Handler, "cleanup", 0, 0, ChatCall(<<"cleanup", "rerank">>, s.query, <<>>))
    [] s.route = "analyze-verse" ->
         IF HasSpecificVerses(s.specificVerses) THEN FanOut(s) ELSE Topical(s)
    [] s.route = "analyze-verse-stream" ->
         LET opened == [Enqueue(s, Event("status", <<"Searching Bible verses...">>, <<>>))
                          EXCEPT !.resp = Json(200, "stream",
                                               [error |-> "", message |-> <<>>])]
         IN IF HasSpecificVerses(s.specificVerses)
            THEN FanOut(Enqueue(opened,
                   Event("status", <<"Analyzing specific verses...">>, <<>>)))
            ELSE Topical(Enqueue(opened,
                   Event("status", <<"Finding relevant verses...">>, <<>>)))

\* a relevance check that rejects the query when its call throws
RelevanceFailsClosed(s, reply) ==
  IF reply.ok /\ IsRelevant(reply.content) THEN Proceed(s) ELSE Rejected(s)

\* STEP 1: the catch of the relevance check lets the query through
AfterRelevance(s, reply) ==
  IF reply.ok /\ ~IsRelevant(reply.content) THEN Rejected(s) ELSE Proceed(s)

\* the handler from its entry to its first await
StartState(route, body) ==
  LET s == NewRequest(route, body) IN
  IF body.kind = "malformed" THEN Fail(s, "Unexpected token in JSON")
  ELSE IF Missing(body.query) THEN Respond(s, BadRequest(route))
  ELSE LET u == [s EXCEPT !.query = body.query,
                          !.topK = IF body.topK = 0 THEN DefaultTopK(route) ELSE body.topK,
                          !.specificVerses = body.specificVerses]
       IN IF route = "parse-intent"
          THEN Issue(u, Handler, "intent", 0, 0, ChatCall(<<"intent">>, u.query, <<>>))
          ELSE Issue(u, Handler, "relevance", 0, 0,
                     ChatCall(<<"relevance">>, u.query, <<>>))

----------------------------------------------------------------------------
(* The streaming completion of analyze-verse-stream *)

\* openai.chat.completions.create({stream: true}) has returned the stream
AfterCompletion(s, reply) ==
  IF ~reply.ok THEN StreamError(s) ELSE [s EXCEPT !.th[Handler].pc = "chunks"]

\* one iteration of `for await (const chunk of completion)`
AfterChunk(s, reply) ==
  IF ~reply.ok THEN StreamError(s)
  ELSE IF reply.items # <<>> THEN StreamComplete(s)
  ELSE IF Truthy(reply.content)
       THEN [Enqueue(s, Event("explanation", reply.content, <<>>)) EXCEPT !.chunks = @ + 1]
       ELSE [s EXCEPT !.chunks = @ + 1]

----------------------------------------------------------------------------
(* One step of a request: the outstanding call of thread t returns `in` *)

Deliver(s, t, in) ==
  LET u == Settle(s, t, in)
      pc == s.th[t].pc
  IN CASE pc = "relevance" -> AfterRelevance(u, in)
       [] pc = "cleanup" -> AfterCleanup(u, in)
       [] pc = "preference" -> AfterPreference(u, in)
       [] pc = "normalize" -> AfterNormalize(u, in)
       [] pc = "fetch" -> AfterFetch(u, in)
       [] pc = "summarySpecific" -> AfterSummarySpecific(u, in)
       [] pc = "embedding" -> AfterEmbedding(u, in)
       [] pc = "query" -> AfterQuery(u, in)
       [] pc = "rerank" -> AfterRerank(u, in)
       [] pc = "summary" -> AfterSummary(u, in)
       [] pc = "intent" -> AfterIntent(u, in)
       [] pc = "kjvEmbed" -> AfterKjvEmbed(u, t, in, in.now)
       [] pc = "kjvQuery" -> AfterKjvQuery(u, t, in, in.now)
       [] pc = "origFetch" -> AfterOrigFetch(u, t, in)
       [] pc = "origEmbed" -> AfterOrigEmbed(u, t, in)
       [] pc = "origQuery" -> AfterOrigQuery(u, t, in)
       [] pc = "explain" -> AfterExplain(u, t, in, in.now)
       [] pc = "combined" -> AfterCombined(u, in, in.now)
       [] pc = "completion" -> AfterCompletion(u, in)
       [] pc = "chunks" -> AfterChunk(u, in)

----------------------------------------------------------------------------
(* The environment: request bodies, upstream replies, the clock *)

QueriesFor(r, route) ==
  IF route # "search" \/ r # 1 THEN {<<"love">>}
  ELSE IF pair THEN {<<"love">>, <<"John", "3:16">>}
  ELSE {<<"love">>, <<"John", "3:16", "John", "3:17-18">>}

\* entries of specificVerses; endVerse 0 stands for an entry without endVerse
VerseA == [book |-> <<"john">>, chapter |-> 3, verse |-> 16, endVerse |-> 0]

VerseB == [book |-> <<"Genesis">>, chapter |-> 1, verse |-> 1, endVerse |-> 0]

\* the range John 3:16-17
VerseRange == [book |-> <<"John">>, chapter |-> 3, verse |-> 16, endVerse |-> 17]

SpecificVersesFor(route) ==
  IF route \notin {"analyze-verse", "analyze-verse-stream"} THEN {<<>>}
  ELSE IF pair THEN {<<>>, <<VerseA>>}
  ELSE {<<>>, <<VerseA>>, <<VerseA, VerseB>>, <<VerseA, VerseA>>, <<VerseRange>>}

TopKsFor(route, specificVerses) ==
  IF route = "parse-intent" \/ pair \/ specificVerses # <<>> THEN {0} ELSE {0, 20}

\* the bodies a client may post to a route; topK = 0 stands for an absent field
BodiesFor(r, route) ==
  {[kind |-> "malformed", query |-> Undefined, topK |-> 0, specificVerses |-> <<>>]}
  \cup {[kind |-> "json", query |-> q, topK |-> 0, specificVerses |-> <<>>] :
          q \in {Undefined, EmptyString}}
  \cup UNION {{[kind |-> "json", query |-> q, topK |-> k, specificVerses |-> sv] :
                  q \in QueriesFor(r, route), k \in TopKsFor(route, sv)} :
                sv \in SpecificVersesFor(route)}

Contents(S) == {Returns(c, <<>>) : c \in S}

RelevanceReplies(few) ==
  IF few THEN Contents({<<"YES">>, <<"NO">>})
  ELSE Contents({<<"YES">>, <<Blank, "yes", Blank>>, <<"NO">>, <<"YES.">>,
                 EmptyString, Undefined})

CleanupReplies(few) ==
  IF few THEN Contents({<<"charity">>})
  ELSE Contents({<<Blank, "love", Blank>>, <<"give", "me", "John", "3:16">>,
                 <<Blank>>, EmptyString, Undefined})

PreferenceReplies(few) ==
  IF few THEN Contents({<<"VERSE_ONLY">>, <<"SUMMARY">>})
  ELSE Contents({<<"VERSE_ONLY">>, <<Blank, "VERSE_ONLY", Blank>>, <<"DETAILED">>,
                 <<"SUMMARY">>, Undefined})

NormalizeReplies(few) ==
  IF few THEN Contents({<<"John">>})
  ELSE Contents({<<"John">>, <<"INVALID">>, Undefined})

TextReplies(few) ==
  IF few THEN Contents({<<"text">>}) ELSE Contents({<<"text">>, Undefined})

\* the values the topK field of the reply may have
TopKValues(few) ==
  IF few THEN {JsonInt(100)}
  ELSE {JsonInt(100), JsonInt(50), JsonInt(7), JsonInt(0), JsonInt(-3), JsonTenths(37),
        JsonTenths(5), JsonString(<<"1", "0">>), JsonString(<<"t", "e", "n">>),
        JsonString(<<Blank, "-", "2">>), JsonString(<<"7", Blank, "v">>)}

IntentObjects(few) ==
  {[cleanedQuery |-> <<"love">>, topK |-> k,
    hasSpecificVerse |-> FALSE, specificVerses |-> <<>>] : k \in TopKValues(few)}
  \cup {[cleanedQuery |-> Undefined, topK |-> JsonMissing,
          hasSpecificVerse |-> TRUE, specificVerses |-> <<VerseA>>]}

\* a JSON object, a text JSON.parse throws on, or no content
IntentReplies(few) ==
  {Returns(<<"{json}">>, <<o>>) : o \in IntentObjects(few)}
  \cup {Returns(<<"not json">>, <<>>), Returns(Undefined, <<>>)}

\* the record index.fetch returns under the id it was asked for
FetchedRecord(call) ==
  [id |-> call.id, score |-> 1, book |-> call.id.book, chapter |-> call.id.chapter,
   verse |-> call.id.verse,
   text |-> [src |-> call.index, book |-> call.id.book, chapter |-> call.id.chapter,
             verse |-> call.id.verse]]

IndexRecord(index, prefix, book, chapter, verse) ==
  [id |-> [prefix |-> prefix, book |-> book, chapter |-> chapter, verse |-> verse],
   score |-> 1, book |-> book, chapter |-> chapter, verse |-> verse,
   text |-> [src |-> index, book |-> book, chapter |-> chapter, verse |-> verse]]

\* the records an index holds
PoolOf(index) ==
  CASE index = KJV_INDEX -> KjvPool
    [] index = HEBREW_INDEX ->
         {IndexRecord(HEBREW_INDEX, "OT", <<"Genesis">>, 1, 1),
          IndexRecord(HEBREW_INDEX, "OT", <<"Genesis">>, 1, 2)}
    [] index = GREEK_INDEX ->
         {IndexRecord(GREEK_INDEX, "NT", <<"John">>, 3, 16),
          IndexRecord(GREEK_INDEX, "NT", <<"John">>, 3, 17)}

QueryReplies(index, few) ==
  IF few THEN {Returns(Undefined, l) : l \in ListsOf(PoolOf(index), 1)}
  ELSE {Returns(Undefined, l) : l \in ListsOf(PoolOf(index), MaxHits)}

\* the reply sets are the small ones when two requests run, and inside a
\* fan-out of several lookups
FewReplies(s) == pair \/ Len(s.th) > 2

\* the vector search of search-rerank may also return the long result, when
\* topK allows it and the request runs alone
WideReplies(s, call) ==
  IF /\ ~FewReplies(s)
     /\ s.route = "search-rerank"
     /\ call.index = KJV_INDEX
     /\ call.topK >= Len(KjvWide)
  THEN {Returns(Undefined, KjvWide)} ELSE {}

FetchReplies(call) == {Returns(Undefined, <<>>), Returns(Undefined, <<FetchedRecord(call)>>)}

\* the reranker returns indexes into the documents it was given, best first
RerankReplies(call) ==
  {Returns(Undefined, [i \in 1..Len(l) |-> [index |-> l[i], score |-> Len(l) - i]]) :
     l \in ListsOf(1..Len(call.docs), Min(call.topK, Len(call.docs)))}

ChunkReplies(s, few) ==
  {Returns(Undefined, <<"end">>)}
  \cup IF s.chunks < MaxChunks
       THEN Contents(IF few THEN {<<"word">>} ELSE {<<"word">>, Undefined})
       ELSE {}

\* what the outstanding call of thread t may answer
RepliesFor(s, t) ==
  LET call == s.th[t].call
      few == FewReplies(s)
  IN
  Throws(few) \cup
  CASE s.th[t].pc = "chunks" -> ChunkReplies(s, few)
    [] call.kind = "embed" -> Contents({<<"vector">>})
    [] call.kind = "query" -> QueryReplies(call.index, few) \cup WideReplies(s, call)
    [] call.kind = "fetch" -> FetchReplies(call)
    [] call.kind = "rerank" -> RerankReplies(call)
    [] call.kind = "chat" ->
         CASE call.purpose[1] = "relevance" -> RelevanceReplies(few)
           [] call.purpose[1] = "cleanup" -> CleanupReplies(few)
           [] call.purpose[1] = "preference" -> PreferenceReplies(few)
           [] call.purpose[1] = "normalize" -> NormalizeReplies(few)
           [] call.purpose[1] = "intent" -> IntentReplies(few)
           [] call.purpose[1] = "analysis-stream" -> Contents({<<"stream">>})
           [] OTHER -> TextReplies(few)

\* the values new Date() may have
Clock == {0, 1}

\* a reply together with the clock at the moment it is delivered; the clock is
\* part of the input only where the step reads it
InputsFor(s, t) ==
  {in \in {[reply EXCEPT !.now = c] : reply \in RepliesFor(s, t), c \in Clock} :
     in.now = 0 \/ Deliver(s, t, in) # Deliver(s, t, [in EXCEPT !.now = 0])}

----------------------------------------------------------------------------
(* Loading the original-language indexes: the loaders and upsertVectors *)

batchSize == 100

\* the longest list of verses a loader is given
MaxVectors == 201

\* a slice that takes the element at j as well
SliceInclusive(vectors, i, j) == SubSeq(vectors, i + 1, Min(j + 1, Len(vectors)))

\* vectors.slice(i, j), i counted from 0
Slice(vectors, i, j) == SubSeq(vectors, i + 1, Min(j, Len(vectors)))

RECURSIVE MakeBatches(_, _)
\* for (let i = 0; i < vectors.length; i += batchSize) batches.push(slice)
MakeBatches(vectors, i) ==
  IF i < Len(vectors)
  THEN <<Slice(vectors, i, i + batchSize)>> \o MakeBatches(vectors, i + batchSize)
  ELSE <<>>

\* `OT-${verse.book.replace(/\s+/g, "-")}-${verse.chapter}-${verse.verse}`
LoaderId(prefix, book, chapter, verse) ==
  [prefix |-> prefix, book |-> Hyphenate(book), chapter |-> chapter, verse |-> verse]

\* verse.text && verse.book && verse.chapter && verse.verse
Complete(v) == Truthy(v.text) /\ Truthy(v.book) /\ v.chapter # 0 /\ v.verse # 0

\* fetchHebrewOT (prefix OT) and loadGreekNT (prefix NT) on the parsed file
LoadVerses(prefix, data) ==
  LET kept == SelectSeq(data, Complete) IN
  [i \in 1..Len(kept) |->
     [id |-> LoaderId(prefix, kept[i].book, kept[i].chapter, kept[i].verse),
      text |-> kept[i].text, book |-> kept[i].book, chapter |-> kept[i].chapter,
      verse |-> kept[i].verse, testament |-> prefix]]

\* the files: n verses of one chapter of a book, numbered from `first`
FileData(book, first, n) ==
  [i \in 1..n |-> [text |-> <<"text">>, book |-> book, chapter |-> 1,
                   verse |-> first + i - 1]]

HebrewBooks == {<<"Genesis">>, <<"genesis">>, <<"Song", Blank, "of", Blank, "Solomon">>}

GreekBooks == {<<"John">>, <<"john">>}

NoLookup == [done |-> FALSE, id |-> NoId, index |-> "", hit |-> FALSE]

\* createOriginalLanguageIndexes before it has loaded a file
IdleIngest ==
  [pc |-> "idle", index |-> "", verses |-> <<>>, batches |-> <<>>, next |-> 0,
   sent |-> <<>>, inflight |-> 0, lookup |-> NoLookup]

RECURSIVE Flatten(_)
\* the vectors of a list of batches, in order
Flatten(batches) ==
  IF batches = <<>> THEN <<>> ELSE Head(batches) \o Flatten(Tail(batches))

\* a loader has read its file: the embeddings of the verses are requested
LoaderRuns ==
  /\ ingest.pc = "idle"
  /\ \E file \in {"hebrew", "greek"}, first \in {0, 1}, n \in 0..MaxVectors :
       \E book \in IF file = "hebrew" THEN HebrewBooks ELSE GreekBooks :
         LET prefix == IF file = "hebrew" THEN "OT" ELSE "NT"
             verses == LoadVerses(prefix, FileData(book, first, n))
         IN ingest' = [ingest EXCEPT
                         !.index = IF file = "hebrew" THEN HEBREW_INDEX ELSE GREEK_INDEX,
                         !.verses = verses,
                         !.pc = IF Len(verses) > 0 THEN "embed" ELSE "done"]
  /\ UNCHANGED <<req, pair>>

\* createEmbeddings has returned for every batch of texts: upsertVectors is
\* called, builds its batches and sends the first
EmbeddingsReturn ==
  /\ ingest.pc = "embed"
  /\ LET batches == MakeBatches(ingest.verses, 0) IN
     ingest' = [ingest EXCEPT !.batches = batches, !.next = 1,
                              !.sent = <<batches[1]>>, !.inflight = 1,
                              !.pc = "upsert"]
  /\ UNCHANGED <<req, pair>>

\* createEmbeddings throws: the script stops
EmbeddingsThrow ==
  /\ ingest.pc = "embed"
  /\ ingest' = [ingest EXCEPT !.pc = "thrown"]
  /\ UNCHANGED <<req, pair>>

\* index.upsert(batch) returns: the next batch is sent, or upsertVectors returns
UpsertReturns ==
  /\ ingest.pc = "upsert"
  /\ ingest' =
       IF ingest.next < Len(ingest.batches)
       THEN [ingest EXCEPT !.next = @ + 1,
                           !.sent = Append(@, ingest.batches[ingest.next + 1])]
       ELSE [ingest EXCEPT !.inflight = 0, !.pc = "returned"]
  /\ UNCHANGED <<req, pair>>

\* index.upsert(batch) throws: upsertVectors rethrows
UpsertThrows ==
  /\ ingest.pc = "upsert"
  /\ ingest' = [ingest EXCEPT !.inflight = 0, !.pc = "thrown"]
  /\ UNCHANGED <<req, pair>>

\* the ids the index holds after the upload
StoredIds == {v.id : v \in {Flatten(ingest.sent)[k] : k \in 1..Len(Flatten(ingest.sent))}}

\* findOriginalLanguageVerse on the book, chapter and verse of a loaded verse:
\* the index it chooses, the id it derives, and whether fetchVectorById finds it
OriginalLookup ==
  /\ ingest.pc = "returned"
  /\ ~ingest.lookup.done
  /\ \E i \in {1, Len(ingest.verses)} :
       LET v == ingest.verses[i]
           verseId == OriginalVerseId(v.book, v.chapter, v.verse)
           indexName == IndexOf(determineTestament(v.book))
       IN ingest' = [ingest EXCEPT !.lookup =
                       [done |-> TRUE, id |-> verseId, index |-> indexName,
                        hit |-> indexName = ingest.index /\ verseId \in StoredIds]]
  /\ UNCHANGED <<req, pair>>

----------------------------------------------------------------------------
(* Actions *)

\* cleanedQuery as a module-level `let`: every invocation writes the same one
WriteShared(rq, r, s) ==
  [o \in DOMAIN rq |->
     IF o = r THEN s
     ELSE IF rq[o].route = "none" THEN rq[o]
     ELSE [rq[o] EXCEPT !.cleanedQuery = s.cleanedQuery]]

\* the locals of a handler invocation belong to that invocation alone
WriteLocal(rq, r, s) == [rq EXCEPT ![r] = s]

\* the requests that arrive: one, or two concurrent ones
Live == IF pair THEN Reqs ELSE {1}

\* the routes request r may be posted to; the second of two concurrent
\* requests is a topical search or an intent parse
RoutesFor(r) == IF r = 1 THEN Routes ELSE {"search", "parse-intent"}

\* a request arrives and its handler runs to its first await
Receive(r) ==
  /\ r \in Live
  /\ req[r].route = "none"
  /\ \E route \in RoutesFor(r) : \E body \in BodiesFor(r, route) :
       req' = WriteLocal(req, r, StartState(route, body))
  /\ UNCHANGED <<pair, ingest>>

\* the call thread t of request r awaits at `pc` returns or throws
Step(r, t, pc) ==
  /\ t \in 1..Len(req[r].th)
  /\ req[r].th[t].pc = pc
  /\ \E in \in InputsFor(req[r], t) :
       req' = WriteLocal(req, r, Deliver(req[r], t, in))
  /\ UNCHANGED <<pair, ingest>>

Threads == 1..3

RelevanceReturns(r) ==
  /\ r \in Live
  /\ Step(r, Handler, "relevance")

CleanupReturns(r) ==
  /\ r \in Live
  /\ Step(r, Handler, "cleanup")

PreferenceReturns(r) ==
  /\ r \in Live
  /\ Step(r, Handler, "preference")

NormalizeReturns(r) ==
  /\ r \in Live
  /\ Step(r, Handler, "normalize")

FetchReturns(r) ==
  /\ r \in Live
  /\ Step(r, Handler, "fetch")

SpecificSummaryReturns(r) ==
  /\ r \in Live
  /\ Step(r, Handler, "summarySpecific")

EmbeddingReturns(r) ==
  /\ r \in Live
  /\ Step(r, Handler, "embedding")

QueryReturns(r) ==
  /\ r \in Live
  /\ Step(r, Handler, "query")

RerankReturns(r) ==
  /\ r \in Live
  /\ Step(r, Handler, "rerank")

SummaryReturns(r) ==
  /\ r \in Live
  /\ Step(r, Handler, "summary")

IntentReturns(r) ==
  /\ r \in Live
  /\ Step(r, Handler, "intent")

KjvEmbedReturns(r, t) ==
  /\ r \in Live
  /\ Step(r, t, "kjvEmbed")

KjvQueryReturns(r, t) ==
  /\ r \in Live
  /\ Step(r, t, "kjvQuery")

OrigFetchReturns(r, t) ==
  /\ r \in Live
  /\ Step(r, t, "origFetch")

OrigEmbedReturns(r, t) ==
  /\ r \in Live
  /\ Step(r, t, "origEmbed")

OrigQueryReturns(r, t) ==
  /\ r \in Live
  /\ Step(r, t, "origQuery")

ExplainReturns(r, t) ==
  /\ r \in Live
  /\ Step(r, t, "explain")

CombinedReturns(r) ==
  /\ r \in Live
  /\ Step(r, Handler, "combined")

CompletionReturns(r) ==
  /\ r \in Live
  /\ Step(r, Handler, "completion")

ChunkArrives(r) ==
  /\ r \in Live
  /\ Step(r, Handler, "chunks")

Init ==
  /\ req = [r \in Reqs |-> Absent]
  /\ pair = FALSE
  /\ ingest = IdleIngest

\* the loading script runs; no request is served
InitIngest ==
  /\ req = [r \in Reqs |-> Absent]
  /\ pair = FALSE
  /\ ingest = IdleIngest

NextIngest ==
  \/ LoaderRuns
  \/ EmbeddingsReturn
  \/ EmbeddingsThrow
  \/ UpsertReturns
  \/ UpsertThrows
  \/ OriginalLookup

SpecIngest == InitIngest /\ [][NextIngest]_vars

InitPair ==
  /\ req = [r \in Reqs |-> Absent]
  /\ pair = TRUE
  /\ ingest = IdleIngest

Next ==
  \/ \E r \in Reqs : Receive(r)
  \/ \E r \in Reqs : RelevanceReturns(r)
  \/ \E r \in Reqs : CleanupReturns(r)
  \/ \E r \in Reqs : PreferenceReturns(r)
  \/ \E r \in Reqs : NormalizeReturns(r)
  \/ \E r \in Reqs : FetchReturns(r)
  \/ \E r \in Reqs : SpecificSummaryReturns(r)
  \/ \E r \in Reqs : EmbeddingReturns(r)
  \/ \E r \in Reqs : QueryReturns(r)
  \/ \E r \in Reqs : RerankReturns(r)
  \/ \E r \in Reqs : SummaryReturns(r)
  \/ \E r \in Reqs : IntentReturns(r)
  \/ \E r \in Reqs, t \in Threads : KjvEmbedReturns(r, t)
  \/ \E r \in Reqs, t \in Threads : KjvQueryReturns(r, t)
  \/ \E r \in Reqs, t \in Threads : OrigFetchReturns(r, t)
  \/ \E r \in Reqs, t \in Threads : OrigEmbedReturns(r, t)
  \/ \E r \in Reqs, t \in Threads : OrigQueryReturns(r, t)
  \/ \E r \in Reqs, t \in Threads : ExplainReturns(r, t)
  \/ \E r \in Reqs : CombinedReturns(r)
  \/ \E r \in Reqs : CompletionReturns(r)
  \/ \E r \in Reqs : ChunkArrives(r)

\* two concurrent requests, each with at most one verse to look up
NextPair ==
  \/ \E r \in Reqs : Receive(r)
  \/ \E r \in Reqs : RelevanceReturns(r)
  \/ \E r \in Reqs : CleanupReturns(r)
  \/ \E r \in Reqs : PreferenceReturns(r)
  \/ \E r \in Reqs : NormalizeReturns(r)
  \/ \E r \in Reqs : FetchReturns(r)
  \/ \E r \in Reqs : SpecificSummaryReturns(r)
  \/ \E r \in Reqs : EmbeddingReturns(r)
  \/ \E r \in Reqs : QueryReturns(r)
  \/ \E r \in Reqs : RerankReturns(r)
  \/ \E r \in Reqs : SummaryReturns(r)
  \/ \E r \in Reqs : IntentReturns(r)
  \/ \E r \in Reqs, t \in Threads : KjvEmbedReturns(r, t)
  \/ \E r \in Reqs, t \in Threads : KjvQueryReturns(r, t)
  \/ \E r \in Reqs, t \in Threads : OrigFetchReturns(r, t)
  \/ \E r \in Reqs, t \in Threads : OrigEmbedReturns(r, t)
  \/ \E r \in Reqs, t \in Threads : OrigQueryReturns(r, t)
  \/ \E r \in Reqs, t \in Threads : ExplainReturns(r, t)
  \/ \E r \in Reqs : CompletionReturns(r)
  \/ \E r \in Reqs : ChunkArrives(r)

Spec == Init /\ [][Next]_vars

SpecPair == InitPair /\ [][NextPair]_vars

----------------------------------------------------------------------------
(* What can be observed of a request *)

Arrived == {r \in Reqs : req[r].route \in Routes}

\* the threads of s whose call has been issued and has not returned
Outstanding(s) == {t \in 1..Len(s.th) : s.th[t].call # NoCall}

\* the await points whose failure the code lets reach the catch of its caller
Rethrown ==
  {"fetch", "embedding", "query", "rerank", "intent", "kjvEmbed", "kjvQuery",
   "completion", "chunks"}

\* the await points of the five LLM-backed operations
LlmOperations == {"relevance", "cleanup", "intent", "normalize", "preference"}

\* the stream ended with the error event of the catch inside start()
StreamFailed(s) ==
  /\ s.closed
  /\ s.events # <<>>
  /\ s.events[Len(s.events)] =
       Event("error", <<"An error occurred while analyzing the verses.">>, <<>>)

ErrorResponse(s) == s.resp.status = 500 \/ StreamFailed(s)

\* the answer to a question that is not about the Bible, with no verse in it
IsRejection(s) ==
  IF s.route = "analyze-verse-stream"
  THEN s.closed /\ s.events = <<Event("error", REJECTION, <<>>)>>
  ELSE /\ s.resp.kind = "rejected"
       /\ s.resp.status = 200
       /\ s.resp.body.verses = <<>>
       /\ s.route \in {"search", "search-rerank"} =>
            /\ s.resp.body.documents = <<>>
            /\ s.resp.body.aiResponse = Ai("text", <<>>, REJECTION)
       /\ s.route = "analyze-verse" => s.resp.body.explanation = REJECTION

\* the request has its response; a started stream has been closed
Terminal(s) ==
  IF s.route = "analyze-verse-stream" /\ s.resp.status = 200 THEN s.closed
  ELSE s.resp # NoResp

----------------------------------------------------------------------------
(* C1 *)

\* C1: on each of the five routes a JSON body whose query is absent or empty is
\* answered with status 400, and no upstream call is issued for the request
C1_MissingQueryIs400 ==
  \A r \in Arrived :
    (req[r].body.kind = "json" /\ req[r].body.query \in {Undefined, EmptyString}) =>
      /\ req[r].resp.status = 400
      /\ req[r].sites = {}
      /\ Outstanding(req[r]) = {}

C1_Witness ==
  \E r \in Arrived :
    /\ req[r].route = "analyze-verse-stream"
    /\ req[r].body.kind = "json"
    /\ req[r].body.query = EmptyString
    /\ req[r].resp.status = 400

----------------------------------------------------------------------------
(* C2 *)

----------------------------------------------------------------------------
(* C3 *)

\* C3 as stated: a failure that no local fallback absorbs ends in status 500
C3_Original ==
  \A r \in Arrived : req[r].failedAt \cap Rethrown # {} => req[r].resp.status = 500

\* C3: a body that cannot be parsed ends in status 500 on every route; a call
\* failure that no local fallback absorbs ends in status 500 on search,
\* search-rerank, analyze-verse and parse-intent, and on analyze-verse-stream,
\* whose 200 response has begun by then, in an error event and the closing of
\* the stream
C3_UnabsorbedFailure ==
  \A r \in Arrived :
    /\ req[r].body.kind = "malformed" => req[r].resp.status = 500
    /\ req[r].failedAt \cap Rethrown # {} =>
         IF req[r].route = "analyze-verse-stream"
         THEN req[r].resp.status = 200 /\ StreamFailed(req[r])
         ELSE req[r].resp.status = 500

C3_Witness ==
  \E r \in Arrived :
    /\ req[r].route = "analyze-verse-stream"
    /\ "kjvQuery" \in req[r].failedAt
    /\ req[r].resp.status = 200
    /\ StreamFailed(req[r])

----------------------------------------------------------------------------
(* C4 *)

\* C4: the body of a 500 response holds no text of the error that caused it
C4_Original ==
  \A r \in Arrived : req[r].resp.status = 500 => req[r].resp.body.message = <<>>

----------------------------------------------------------------------------
(* C5 *)

\* C5: when only calls of the five LLM-backed operations have failed the request
\* is not answered with an error, and a failed intent parse answers the defaults
C5_Original ==
  \A r \in Arrived :
    /\ (req[r].failedAt # {} /\ req[r].failedAt \subseteq LlmOperations) =>
         ~ErrorResponse(req[r])
    /\ "intent" \in req[r].failedAt =>
         req[r].resp = Json(200, "ok", IntentDefaults(req[r].query))

----------------------------------------------------------------------------
(* C6 *)

\* C6: whenever the relevance check returns a reply that, trimmed and
\* upper-cased, is not exactly "YES" (a missing or empty reply included), the
\* handler answers the fixed rejection with no verse and issues no call; a
\* rejected request has issued the relevance call and nothing else
C6_IrrelevantRejected ==
  \A r \in Arrived :
    /\ req[r].th[Handler].pc = "relevance" =>
         \A in \in InputsFor(req[r], Handler) :
           (in.ok /\ (in.content = Undefined
                        \/ ToUpperCase(Trim(in.content)) # <<"YES">>)) =>
             LET n == Deliver(req[r], Handler, in) IN
             /\ IsRejection(n)
             /\ n.sites = req[r].sites
             /\ Outstanding(n) = {}
    /\ IsRejection(req[r]) =>
         /\ req[r].sites = {<<Handler, "relevance", 0, 0>>}
         /\ Outstanding(req[r]) = {}

C6_Witness ==
  \E r \in Arrived :
    /\ req[r].route = "analyze-verse"
    /\ IsRejection(req[r])

----------------------------------------------------------------------------
(* C7 *)

\* C7 as stated: a call that failed is never issued again with the same arguments
C7_Original ==
  \A r \in Arrived : ~req[r].reissued

\* C7: no await point is executed twice for the same loop iteration of the same
\* thread, so no catch issues its call again; every step of a request is the
\* return of a call, there is no waiting step
C7_NoCatchReissues ==
  \A r \in Arrived : ~req[r].resited

C7_Witness ==
  \E r \in Arrived :
    /\ req[r].route = "search"
    /\ "cleanup" \in req[r].failedAt
    /\ req[r].resp.status = 200
    /\ req[r].resp.kind = "ok"
    /\ ~req[r].reissued

----------------------------------------------------------------------------
(* C8 *)

\* C8: while the handler has a call outstanding it is the only outstanding call
\* of the request; several calls are outstanding only among the lookups of the
\* fan-out of an analyze-verse route given specific verses; a request runs at
\* most one fan-out
C8_SequentialExceptFanOut ==
  \A r \in Arrived :
    LET s == req[r] IN
    /\ Handler \in Outstanding(s) => Outstanding(s) = {Handler}
    /\ Cardinality(Outstanding(s)) > 1 =>
         /\ s.route \in {"analyze-verse", "analyze-verse-stream"}
         /\ s.body.specificVerses # <<>>
         /\ s.fanouts = 1
    /\ s.fanouts <= 1

C8_Witness ==
  \E r \in Arrived :
    /\ Cardinality(Outstanding(req[r])) = 2
    /\ req[r].fanouts = 1

----------------------------------------------------------------------------
(* C9 *)

\* a step of request r alone: its arrival, or the return of one of its calls
OwnStep(r) ==
  \/ /\ req[r] = Absent
     /\ \E route \in Routes : \E body \in BodiesFor(r, route) :
          req'[r] = StartState(route, body)
  \/ \E t \in Outstanding(req[r]) : \E in \in InputsFor(req[r], t) :
       req'[r] = Deliver(req[r], t, in)

----------------------------------------------------------------------------
(* C10 *)

\* C10 as stated: a request has its response (a started stream: is closed) only
\* when none of its calls is outstanding
C10_Original ==
  \A r \in Arrived : Terminal(req[r]) => Outstanding(req[r]) = {}

\* C10: a request that has not answered is waiting for a call; it answers with
\* a call still outstanding only when a lookup of the fan-out has thrown, the
\* answer is the error, and the outstanding calls are those of other lookups
C10_ResponseAwaitsCalls ==
  \A r \in Arrived :
    LET s == req[r] IN
    /\ ~Terminal(s) => Outstanding(s) # {}
    /\ (Terminal(s) /\ Outstanding(s) # {}) =>
         /\ Outstanding(s) \subseteq Tasks(s)
         /\ \E t \in Tasks(s) : s.th[t].settled = "rejected"
         /\ ErrorResponse(s)

C10_Witness ==
  \E r \in Arrived :
    /\ req[r].route = "analyze-verse"
    /\ req[r].resp.status = 500
    /\ Outstanding(req[r]) # {}

----------------------------------------------------------------------------
(* C11 *)

\* C11, as the specification states it: for every verse a loader stored, the
\* id findOriginalLanguageVerse derives for its book, chapter and verse is the
\* id it was stored under, in the index the lookup reads, so fetchVectorById
\* finds it.  The loaders keep the case of the book name while the lookup
\* lowers it: a verse of "Genesis" is stored as OT-Genesis-1-1 and looked up
\* as OT-genesis-1-1.
C11_Original == ingest.lookup.done => ingest.lookup.hit

----------------------------------------------------------------------------
(* C15 *)

\* C15: upsertVectors sends the vectors in consecutive batches of at most
\* batchSize, in input order and one batch at a time: what has been sent so far
\* is a prefix of the input, no batch is empty or longer than batchSize, every
\* batch but the last sent holds exactly batchSize vectors, at most one upsert
\* is outstanding, and on normal return the batches sent, laid end to end, are
\* the input, so that every vector went out exactly once.
C15_ConsecutiveBatches ==
  LET sent == ingest.sent
      all == Flatten(sent)
  IN /\ ingest.inflight <= 1
     /\ Len(all) <= Len(ingest.verses)
     /\ all = SubSeq(ingest.verses, 1, Len(all))
     /\ \A k \in 1..Len(sent) : Len(sent[k]) >= 1 /\ Len(sent[k]) <= batchSize
     /\ \A k \in 1..(Len(sent) - 1) : Len(sent[k]) = batchSize
     /\ ingest.pc = "returned" => all = ingest.verses

\* upsertVectors has returned after two full batches and a last one of a
\* single vector
C15_Witness ==
  /\ ingest.pc = "returned"
  /\ Len(ingest.sent) = 3
  /\ Len(ingest.sent[3]) = 1

----------------------------------------------------------------------------
(* C12 *)

\* the streams of the requests that passed the relevance check
Streamed ==
  {r \in Reqs : /\ req[r].route = "analyze-verse-stream"
                /\ req[r].resp.kind = "stream"
                /\ ~IsRejection(req[r])}

\* the positions of the events of one type in the stream of s
EventsOf(s, type) == {i \in 1..Len(s.events) : s.events[i].type = type}

VersesFirst(s) ==
  /\ s.events # <<>>
  /\ s.events[1].type = "status"
  /\ \A i \in EventsOf(s, "explanation") : \E j \in EventsOf(s, "verses") : j < i

----------------------------------------------------------------------------
(* C13 *)

\* the verses analyzeVerses and analyzeSpecificVerse have built so far
BuiltVerses ==
  UNION {UNION {{req[r].th[t].acc[i] : i \in 1..Len(req[r].th[t].acc)} :
                  t \in 1..Len(req[r].th)} : r \in Arrived}

\* the index a verse's original text was read from is the one of its book
IndexOfItsBook(v) ==
  v.originalText # <<>> =>
    v.originalText[1].src = IndexOf(determineTestament(v.book))

LanguageOfTestament(v) ==
  v.originalLanguage # "" => (v.originalLanguage = "hebrew" <=> v.testament = "OT")

\* C13, as the specification states it: for every verse analyzeVerses or
\* analyzeSpecificVerse returns, the original text is read from the Hebrew
\* index exactly when the verse's book is an Old Testament book, and a set
\* originalLanguage is "hebrew" exactly when testament is "OT".
\* analyzeSpecificVerse chooses the index by the book it was asked for and
\* returns the book of the KJV match, which is kjvResults[0] when no result
\* matches: asked for john 3:16 and given Genesis 1:1 by the KJV search, it
\* returns Genesis 1:1 with a text read from the Greek index.
C13_Original == \A v \in BuiltVerses : IndexOfItsBook(v) /\ LanguageOfTestament(v)

C13_LanguageOnly == \A v \in BuiltVerses : LanguageOfTestament(v)

----------------------------------------------------------------------------
(* C14 *)

\* the topK field of a reply is absent or does not start with a number
NoNumber(reply) ==
  \/ reply.items = <<>>
  \/ reply.items[1].topK.t = "missing"
  \/ /\ reply.items[1].topK.t = "string"
     /\ LET t == TrimStart(reply.items[1].topK.s) IN
        t = <<>> \/ (DigitOf(Head(t)) < 0 /\ Head(t) \notin {"-", "+"})

\* C14: every successful parse-intent response carries a topK between 1 and
\* 50, whatever the model replied, and it is 5 when the reply has no topK, a
\* topK that does not parse as a number, no content, or is not valid JSON.
C14_TopKClamped ==
  \A r \in Arrived :
    req[r].route = "parse-intent" /\ req[r].resp.status = 200 =>
      /\ req[r].resp.body.topK \in 1..50
      /\ NoNumber(req[r].heard["intent"]) => req[r].resp.body.topK = 5

\* a reply whose topK is the word "ten" was answered with topK 5
C14_Witness ==
  \E r \in Arrived :
    /\ req[r].route = "parse-intent"
    /\ req[r].resp.status = 200
    /\ req[r].heard["intent"].items # <<>>
    /\ req[r].heard["intent"].items[1].topK = JsonString(<<"t", "e", "n">>)
    /\ req[r].resp.body.topK = 5

----------------------------------------------------------------------------
(* C16 *)

\* s without the record of the calls that failed
Unfailed(s) == [s EXCEPT !.failed = {}, !.failedAt = {}]

\* C16: the relevance check fails open.  When the relevance call throws, the
\* handler is left in the state a "YES" reply leaves it in, with the same next
\* call issued, so that the rest of the pipeline runs as after "YES".
C16_FailsOpen ==
  [][\A r \in Reqs :
       req[r].th[Handler].pc = "relevance" /\ "relevance" \in req'[r].failedAt =>
         Unfailed(req'[r]) =
           Unfailed(Deliver(req[r], Handler, Returns(<<"YES">>, <<>>)))]_vars

\* a request whose relevance call threw was answered with verses
C16_Witness ==
  \E r \in Arrived :
    /\ "relevance" \in req[r].failedAt
    /\ req[r].resp.status = 200
    /\ req[r].resp.kind = "ok"
    /\ req[r].resp.body.verses # <<>>

----------------------------------------------------------------------------
(* C17 *)

\* the requests of the two search routes whose embedding call is outstanding
Embedding ==
  {r \in Arrived : /\ req[r].route \in {"search", "search-rerank"}
                   /\ req[r].th[Handler].pc = "embedding"}

\* every response that echoes a query echoes the one that was posted
EchoesQuery ==
  \A r \in Arrived :
    req[r].route \in {"search", "search-rerank"} /\ req[r].resp.status = 200 =>
      req[r].resp.body.query = req[r].body.query

\* C17, as the specification states it: the embedded text is the trimmed
\* cleanup reply whenever the cleanup call succeeded with non-empty content.
\* A reply of blanks only is non-empty, its trimmed text is empty, and the
\* handler embeds the original query.
C17_Original ==
  /\ EchoesQuery
  /\ \A r \in Embedding :
       LET reply == req[r].heard["cleanup"] IN
       req[r].th[Handler].call.text =
         IF reply.ok /\ reply.content \notin {Undefined, EmptyString}
         THEN Trim(reply.content) ELSE req[r].body.query

\* C17: in search and search-rerank the embedded text is the trimmed cleanup
\* reply when the cleanup call succeeds with content that is not empty after
\* trimming, and the original query when the call throws or its content is
\* absent, empty or blank; the query echoed in the response is the original.
C17_EmbedsCleanedQuery ==
  /\ EchoesQuery
  /\ \A r \in Embedding :
       LET reply == req[r].heard["cleanup"] IN
       req[r].th[Handler].call.text =
         IF reply.ok /\ reply.content # Undefined /\ Trim(reply.content) # EmptyString
         THEN Trim(reply.content) ELSE req[r].body.query

\* the text sent for embedding is a cleanup reply that differs from the query
C17_Witness ==
  \E r \in Embedding :
    /\ req[r].heard["cleanup"].ok
    /\ req[r].th[Handler].call.kind = "embed"
    /\ req[r].th[Handler].call.text = <<"give", "me", "John", "3:16">>
    /\ req[r].th[Handler].call.text # req[r].body.query

----------------------------------------------------------------------------
(* C18 *)

RECURSIVE RangeOf(_, _, _)
\* <<chapter, verse>> for the verses first..last of a chapter
RangeOf(chapter, first, last) ==
  IF first > last THEN <<>>
  ELSE <<<<chapter, first>>>> \o RangeOf(chapter, first + 1, last)

RECURSIVE Referenced(_)
\* the verses the references name, in the order of the references
Referenced(matches) ==
  IF matches = <<>> THEN <<>>
  ELSE RangeOf(Head(matches).chapter, Head(matches).startVerse,
               EndVerseNum(Head(matches))) \o Referenced(Tail(matches))

RECURSIVE IsSubsequence(_, _)
\* a can be had from b by leaving elements out
IsSubsequence(a, b) ==
  \/ a = <<>>
  \/ /\ b # <<>>
     /\ IF Head(a) = Head(b) THEN IsSubsequence(Tail(a), Tail(b))
        ELSE IsSubsequence(a, Tail(b))

\* the search requests whose cleaned query holds a verse reference
Referring == {r \in Arrived : req[r].route = "search" /\ req[r].verseMatches # <<>>}

\* the calls of the vector search were issued
Searched(s) == \E k \in s.sites : k[2] \in {"embedding", "query"}

\* the response holds the fetched records, in the order of the references
FetchedInOrder(s) ==
  /\ s.resp.body.documents = s.requestedVerses
  /\ s.resp.body.total = Len(s.requestedVerses)
  /\ IsSubsequence([i \in 1..Len(s.requestedVerses) |->
                      <<s.requestedVerses[i].chapter, s.requestedVerses[i].verse>>],
                   Referenced(s.verseMatches))

\* C18, as the specification states it: whenever the cleaned query holds a
\* reference and a fetch by id returned a record, the response holds exactly
\* the fetched records.  A later fetch that throws reaches the catch of the
\* handler, and the response is the 500 body.
C18_Original ==
  \A r \in Referring :
    Terminal(req[r]) /\ req[r].requestedVerses # <<>> =>
      /\ req[r].resp.status = 200
      /\ FetchedInOrder(req[r])
      /\ ~Searched(req[r])

\* C18: in the search route, when the cleaned query holds a verse reference
\* and no fetch throws, a run in which a fetch by id returned a record answers
\* with exactly the fetched records, in the order of the references and with
\* the verses of a range ascending, and makes no embedding or vector query;
\* a run in which no reference yielded a record goes on to the vector search.
\* A fetch that throws ends the request with the 500 response.
C18_ExactVerses ==
  \A r \in Referring :
    LET s == req[r] IN
    /\ Searched(s) => s.requestedVerses = <<>>
    /\ s.resp.status = 200 /\ s.requestedVerses # <<>> =>
         FetchedInOrder(s) /\ ~Searched(s)
    /\ s.resp.status = 200 /\ s.requestedVerses = <<>> => Searched(s)
    /\ Terminal(s) /\ s.resp.status # 200 => s.failedAt # {}

\* the verses 16 and 18 of two references were fetched and returned, the
\* verse 17 between them was not in the index
C18_Witness ==
  \E r \in Referring :
    /\ req[r].resp.status = 200
    /\ Len(req[r].resp.body.documents) = 2
    /\ req[r].resp.body.documents[1].verse = 16
    /\ req[r].resp.body.documents[2].verse = 18
    /\ ~Searched(req[r])

----------------------------------------------------------------------------
(* C19 *)

\* the requests answered with a stream, the rejection stream included
Streams ==
  {r \in Reqs : req[r].route = "analyze-verse-stream" /\ req[r].resp.kind = "stream"}

\* the positions of the complete and error events in the stream of s
Terminals(s) == EventsOf(s, "complete") \cup EventsOf(s, "error")

\* a closed stream holds one terminal event, its last; an open one holds none
\* and still has a call outstanding
OneTerminal(s) ==
  /\ s.closed => Terminals(s) = {Len(s.events)}
  /\ ~s.closed => Terminals(s) = {} /\ Outstanding(s) # {}

\* C19: every stream of analyze-verse-stream ends with exactly one terminal
\* event, complete or error and never both: as long as the stream is open it
\* holds no terminal event and a call is outstanding, once every call has
\* returned or failed it is closed with a single terminal event as its last
\* event, and nothing is enqueued on a closed stream, not even by a lookup of
\* the fan-out that is still running.
C19_OneTerminalEvent ==
  /\ [](\A r \in Streams : OneTerminal(req[r]))
  /\ [][\A r \in Streams :
          req[r].closed => req'[r].closed /\ req'[r].events = req[r].events]_vars

\* a stream closed by an error while a lookup of the fan-out is still running
C19_Witness ==
  \E r \in Streams :
    /\ req[r].closed
    /\ req[r].events[Len(req[r].events)].type = "error"
    /\ Outstanding(req[r]) # {}

----------------------------------------------------------------------------
(* C20 *)

\* the search requests answered with documents
Answered ==
  {r \in Arrived : /\ req[r].route = "search"
                   /\ req[r].resp.status = 200
                   /\ req[r].resp.kind = "ok"}

\* a summarization call was issued
Summarized(s) == \E k \in s.sites : k[2] \in {"summary", "summarySpecific"}

\* aiResponse is the formatted verses and nothing else
VersesOnly(s) ==
  IF s.resp.body.documents # <<>>
  THEN s.resp.body.aiResponse = Ai("verses", s.resp.body.verses, EmptyString)
  ELSE s.resp.body.aiResponse = Ai("text", <<>>, EmptyString)

\* aiResponse holds the formatted verses when there are documents
HoldsVerses(s) ==
  s.resp.body.documents # <<>> =>
    /\ s.resp.body.aiResponse.form \in {"verses", "verses+summary", "fallback"}
    /\ s.resp.body.aiResponse.verses = s.resp.body.verses
    /\ s.resp.body.verses = FormatVerses(s.resp.body.documents)

\* C20, as the specification states it: no summary is requested when the
\* preference reply is exactly "VERSE_ONLY", and one is requested for every
\* other reply.  The reply is trimmed before it is compared: for the reply
\* " VERSE_ONLY " no summary is requested either.
C20_Original ==
  \A r \in Answered :
    LET s == req[r]
        verseOnly == s.heard["preference"].content = <<"VERSE_ONLY">>
    IN /\ verseOnly => ~Summarized(s) /\ VersesOnly(s)
       /\ ~verseOnly /\ s.resp.body.documents # <<>> => Summarized(s)
       /\ HoldsVerses(s)

\* C20: in the search route, when the trimmed preference reply is "VERSE_ONLY"
\* no summarization call is made and aiResponse is the formatted verses; for
\* every other reply, and when the preference call throws, a summary is
\* requested once there are documents; every successful response with
\* documents holds the formatted verses in aiResponse.
C20_VerseOnlySkipsSummary ==
  \A r \in Answered :
    LET s == req[r]
        reply == s.heard["preference"]
        verseOnly == /\ reply.ok
                     /\ reply.content # Undefined
                     /\ Trim(reply.content) = <<"VERSE_ONLY">>
    IN /\ verseOnly => ~Summarized(s) /\ VersesOnly(s)
       /\ ~verseOnly /\ s.resp.body.documents # <<>> => Summarized(s)
       /\ HoldsVerses(s)

\* the reply " VERSE_ONLY " was answered with the verses and no summary
C20_Witness ==
  \E r \in Answered :
    /\ req[r].heard["preference"].content = <<Blank, "VERSE_ONLY", Blank>>
    /\ req[r].resp.body.documents # <<>>
    /\ req[r].resp.body.aiResponse = Ai("verses", req[r].resp.body.verses, EmptyString)
    /\ ~Summarized(req[r])

----------------------------------------------------------------------------
(* C21 *)

\* the successful responses of search-rerank
Reranking ==
  {r \in Arrived : /\ req[r].route = "search-rerank"
                   /\ req[r].resp.status = 200
                   /\ req[r].resp.kind = "ok"}

\* doc is the document `original` of the vector search with a rerankScore
Extends(doc, original, rerankScore) ==
  /\ doc.id = original.id
  /\ doc.score = original.score
  /\ doc.book = original.book
  /\ doc.chapter = original.chapter
  /\ doc.verse = original.verse
  /\ doc.text = original.text
  /\ doc.rerankScore = rerankScore

\* C21: in every successful search-rerank response, which carries reranked:
\* true, each document is the document of the vector search at the index the
\* reranker returned, extended with the reranker's score; at most 5 documents
\* are returned whatever topK was requested, the reranker being asked for 5
\* and returning no more than it is asked for; total is their number.
C21_RerankedDocuments ==
  \A r \in Reranking :
    LET documents == req[r].resp.body.documents
        found == req[r].heard["query"].items
        data == req[r].heard["rerank"].items
    IN /\ req[r].resp.body.reranked
       /\ Len(documents) = Len(data)
       /\ \A i \in 1..Len(documents) :
            /\ data[i].index \in 1..Len(found)
            /\ Extends(documents[i], found[data[i].index], data[i].score)
       /\ Len(documents) <= 5
       /\ req[r].resp.body.total = Len(documents)

\* twenty documents were asked for, the vector search found six and five
\* were returned
C21_Witness ==
  \E r \in Reranking :
    /\ req[r].topK = 20
    /\ Len(req[r].heard["query"].items) = 6
    /\ Len(req[r].resp.body.documents) = 5
    /\ req[r].resp.body.total = 5

----------------------------------------------------------------------------
(* C22 *)

\* the requests of the analyze routes answered with at least one verse
Analyzed ==
  {r \in Arrived : /\ req[r].route \in {"analyze-verse", "analyze-verse-stream"}
                   /\ Terminal(req[r])
                   /\ req[r].resp.status = 200
                   /\ req[r].verses # <<>>}

\* C22, as the specification states it: for an entry of specificVerses with an
\* endVerse, every verse from verse to endVerse is returned.  Both routes pass
\* book, chapter and verse of the entry to analyzeSpecificVerse and never read
\* endVerse: for John 3:16-17 one lookup is made and one verse is returned.
C22_Original ==
  \A r \in Analyzed :
    \A e \in 1..Len(req[r].specificVerses) :
      LET entry == req[r].specificVerses[e] IN
      entry.endVerse # 0 =>
        \A v \in entry.verse..entry.endVerse :
          \E i \in 1..Len(req[r].verses) :
            /\ req[r].verses[i].chapter = entry.chapter
            /\ req[r].verses[i].verse = v

----------------------------------------------------------------------------
(* C23 *)

\* the invocations of analyzeSpecificVerse that have returned
Looked ==
  UNION {{<<r, t>> : t \in {u \in 2..Len(req[r].th) :
                              /\ req[r].th[u].fn = "analyzeSpecificVerse"
                              /\ req[r].th[u].settled = "fulfilled"}} :
           r \in Arrived}

\* C23, as the specification states it: analyzeSpecificVerse returns no verse
\* or exactly the verse it was asked for, the book compared without regard to
\* case.  When no result of the KJV search matches the request the function
\* takes kjvResults[0]: asked for john 3:16 and given Genesis 1:1 by the
\* search, it returns Genesis 1:1.
C23_Original ==
  \A p \in Looked :
    LET th == req[p[1]].th[p[2]] IN
    \/ th.verses = <<>>
    \/ /\ Len(th.verses) = 1
       /\ ToLowerCase(th.verses[1].book) = ToLowerCase(th.target.book)
       /\ th.verses[1].chapter = th.target.chapter
       /\ th.verses[1].verse = th.target.verse

----------------------------------------------------------------------------
(* C24 *)

\* the requests of the analyze routes with two specificVerses whose verses
\* have been sent: in the JSON response, or in the verses event of the stream
Joined ==
  {r \in Arrived : /\ req[r].route \in {"analyze-verse", "analyze-verse-stream"}
                   /\ Len(req[r].specificVerses) = 2
                   /\ Len(req[r].th) = 3
                   /\ IF req[r].route = "analyze-verse"
                      THEN req[r].resp.status = 200 /\ req[r].resp.kind = "ok"
                      ELSE EventsOf(req[r], "verses") # {}}

\* the verses sent to the client
SentVerses(s) ==
  IF s.route = "analyze-verse" THEN s.resp.body.verses
  ELSE s.events[CHOOSE i \in EventsOf(s, "verses") : TRUE].verses

\* C24: with several specificVerses the verses of the response are those of
\* the first entry followed by those of the second, each lookup having been
\* asked for the chapter and verse of its entry, in whatever order the two
\* lookups completed.
C24_VersesInRequestOrder ==
  \A r \in Joined :
    LET s == req[r] IN
    /\ \A e \in 1..2 :
         /\ s.th[e + 1].target.book = s.specificVerses[e].book
         /\ s.th[e + 1].target.chapter = s.specificVerses[e].chapter
         /\ s.th[e + 1].target.verse = s.specificVerses[e].verse
    /\ SentVerses(s) = FormatAnalysis(s.th[2].verses \o s.th[3].verses)

\* the lookup of the second entry completed first, the two lookups returned
\* different verses, and the verse of the first entry comes first
C24_Witness ==
  \E r \in Joined :
    /\ req[r].finished = <<3, 2>>
    /\ Len(req[r].th[2].verses) = 1
    /\ Len(req[r].th[3].verses) = 1
    /\ req[r].th[2].verses # req[r].th[3].verses
    /\ SentVerses(req[r]) = FormatAnalysis(req[r].th[2].verses \o req[r].th[3].verses)

====
